---- MODULE Spec2Model ----
(***************************************************************************)
(* RevEnGo: the concurrent analysis orchestrator and its helpers (package   *)
(* agent: Agent.AnalyzeFile, NewAgent, determineFileType), the static      *)
(* analysis (package reverse: AnalyzeFile, identifyFileType,               *)
(* extractStrings, the container parsers), the note store (package models: *)
(* FileNoteStore) and its controller (package ui: NoteController).         *)
(*                                                                         *)
(* Agent.AnalyzeFile is modelled as five threads of control: the calling   *)
(* goroutine (mainPc), the three task goroutines (tpc) and the goroutine   *)
(* that waits on the WaitGroup and closes the channels (closerPc).  The    *)
(* three buffered channels are bounded FIFO buffers with a closed flag.    *)
(* The environment (the file on disk, the outcome of each Generate call)   *)
(* is chosen in Init and never changes afterwards.  Each of the other      *)
(* operations has an initial condition and a next-state relation of its    *)
(* own, under which the variables of the rest stay idle.                   *)
(***************************************************************************)
EXTENDS Integers, Sequences, FiniteSets, TLC

VARIABLES
    file,        \* the file on disk named by filePath
    gen,         \* per task: what a.model.Generate does when called
    parserImpl,  \* which response parser is linked in
    mainPc,      \* position of the goroutine that called AnalyzeFile
    fileRead,    \* TRUE once ioutil.ReadFile has returned the content
    tpc,         \* per task: position of its goroutine
    pending,     \* per task: items parsed and not yet sent
    chans,       \* findingsChan, vulnChan, summaryChan
    wg,          \* sync.WaitGroup counter
    closerPc,    \* position of the goroutine that closes the channels
    result,      \* the *AnalysisResult under construction / returned
    retErr,      \* the error value returned by AnalyzeFile
    genCalls,    \* the tasks whose Generate call has been made
    panicked,    \* a send on a closed channel happened
    sniffFiles,  \* reverse: the files handed to identifyFileType
    sniffTags,   \* reverse: per file, what each identifyFileType call returned
    strInput,    \* reverse: the file and environment extractStrings runs on
    strOutput,   \* reverse: what extractStrings returned
    revFile,     \* reverse: the file AnalyzeFile is called on
    revPc,       \* reverse: position of the AnalyzeFile call
    revInfo,     \* reverse: the *FileInfo returned
    revErr,      \* reverse: the error returned
    typeInput,   \* agent: the extension and content determineFileType gets
    typeOutput,  \* agent: what determineFileType returned
    ctorOptions, \* agent: the Options NewAgent is called with
    ctorReturn,  \* agent: what NewAgent returned
    now,         \* models: the wall clock, in ticks
    notes,       \* models: the note files of the store, by ID
    saved,       \* models: the last SaveNote call, its note and its error
    currentNoteID, \* ui: NoteController.currentNoteID
    notepad      \* ui: the text of the title entry of the notepad

agentVars == <<file, gen, parserImpl, mainPc, fileRead, tpc, pending, chans,
               wg, closerPc, result, retErr, genCalls, panicked>>
sniffVars == <<sniffFiles, sniffTags>>
strVars == <<strInput, strOutput>>
revVars == <<revFile, revPc, revInfo, revErr>>
helperVars == <<typeInput, typeOutput, ctorOptions, ctorReturn>>
noteVars == <<now, notes, saved, currentNoteID, notepad>>
vars == <<agentVars, sniffVars, strVars, revVars, helperVars, noteVars>>

(***************************************************************************)
(* Bounds of the model.                                                    *)
(***************************************************************************)
MaxRespLen == 1
MaxLines == 11
MaxCalls == 2
MaxOut == 6
MaxData == 9
MaxTime == 5
TicksPerSecond == 2

Nil == "nil"

\* The nil *AnalysisResult.
NoResult == [nil |-> TRUE]

Min(a, b) == IF a < b THEN a ELSE b

Take(s, n) == SubSeq(s, 1, Min(Len(s), n))

(***************************************************************************)
(* Program constants.                                                      *)
(***************************************************************************)
maxSize == 10 * 1024 * 1024
FindingsChanCap == 10
VulnChanCap == 10
SummaryChanCap == 1
DescriptionPrefix == 100
BinaryProbe == 1000

Tasks == {"Extraction", "VulnerabilityScan", "Summary"}

CapUnbufferedSummary(t) ==
    CASE t = "Extraction" -> FindingsChanCap
      [] t = "VulnerabilityScan" -> VulnChanCap
      [] t = "Summary" -> 0

Cap(t) ==
    CASE t = "Extraction" -> FindingsChanCap
      [] t = "VulnerabilityScan" -> VulnChanCap
      [] t = "Summary" -> SummaryChanCap

(***************************************************************************)
(* Helper functions of package agent.                                      *)
(***************************************************************************)
isBinaryWholeFile(content) ==
    \E i \in 1..Len(content) : content[i] = 0

\* A zero byte among the first min(len(content), 1000) bytes.
isBinary(content) ==
    \E i \in 1..Min(Len(content), BinaryProbe) : content[i] = 0

determineFileType(ext, content) ==
    CASE ext \in {".exe", ".dll"} -> "Windows PE Executable"
      [] ext \in {".elf", ".so"} -> "ELF Binary"
      [] ext = ".jar" -> "Java Archive"
      [] ext = ".class" -> "Java Bytecode"
      [] ext = ".js" -> "JavaScript"
      [] ext = ".py" -> "Python"
      [] ext = ".go" -> "Go"
      [] ext \in {".c", ".cpp", ".h", ".hpp"} -> "C/C++"
      [] OTHER -> IF isBinary(content) THEN "Binary" ELSE "Text"

\* The placeholder parsers: one sample item that quotes the first 100
\* characters of the response.
parseFindings(response) ==
    << [Type |-> "Sample",
        Description |-> <<"finding", Take(response, DescriptionPrefix)>>,
        Location |-> "N/A",
        Severity |-> "Low"] >>

parseVulnerabilities(response) ==
    << [Type |-> "Sample",
        Description |-> <<"vulnerability", Take(response, DescriptionPrefix)>>,
        Location |-> "N/A",
        Severity |-> "Low",
        CVSS |-> 32,
        Remediation |-> "Example remediation steps would go here."] >>

\* The parser the prompts ask for ("one finding per line"): one item per
\* line of the response, in the order of the lines.
parseLines(kind, response) ==
    [i \in 1..Len(response) |->
        [Type |-> kind, Description |-> response[i], Location |-> i,
         Severity |-> "Low"]]

\* What a task sends after a successful Generate.
Parsed(t, response) ==
    CASE t = "Summary" -> <<response>>
      [] t = "Extraction" ->
            IF parserImpl = "placeholder" THEN parseFindings(response)
            ELSE parseLines("finding", response)
      [] t = "VulnerabilityScan" ->
            IF parserImpl = "placeholder" THEN parseVulnerabilities(response)
            ELSE parseLines("vulnerability", response)

(***************************************************************************)
(* The environment.                                                        *)
(***************************************************************************)
SeqsUpTo(S, n) == UNION {[1..k -> S] : k \in 0..n}

Responses == SeqsUpTo({1, 2}, MaxRespLen)

\* Responses of n lines, for the short counts and for the counts around the
\* capacity of the item channels.
LineCounts == {0, 1, 2} \cup (Min(FindingsChanCap, VulnChanCap) - 1)..MaxLines

LineResponses == {[i \in 1..n |-> i] : n \in LineCounts}

Outcomes(R) ==
    [kind : {"ok"}, response : R]
        \cup {[kind |-> "err", response |-> <<>>],
              [kind |-> "hang", response |-> <<>>]}

\* The files AnalyzeFile is called on: a missing one, one over the cap, two
\* that cannot be read, and three accepted ones (one of them exactly at the
\* cap).  content holds the leading bytes, which are all that
\* determineFileType and the prompts look at.
Files ==
    {[exists |-> FALSE, size |-> 0, readable |-> FALSE, name |-> "a.bin",
      ext |-> ".bin", content |-> <<>>]}
    \cup
    [exists : {TRUE}, size : {maxSize + 1}, readable : {TRUE},
     name : {"a.bin"}, ext : {".bin"}, content : {<<>>}]
    \cup
    [exists : {TRUE}, size : {2, maxSize}, readable : {FALSE},
     name : {"a.bin"}, ext : {".bin"}, content : {<<>>}]
    \cup
    {[exists |-> TRUE, size |-> maxSize, readable |-> TRUE, name |-> "a.bin",
      ext |-> ".bin", content |-> <<65, 0>>],
     [exists |-> TRUE, size |-> 2, readable |-> TRUE, name |-> "a.exe",
      ext |-> ".exe", content |-> <<65, 66>>],
     [exists |-> TRUE, size |-> 0, readable |-> TRUE, name |-> "a",
      ext |-> "", content |-> <<>>]}

EmptyChan == [buf |-> <<>>, closed |-> FALSE]

AgentInit(F, R, S, impl) ==
    /\ file \in F
    /\ gen \in {g \in [Tasks -> Outcomes(R) \cup Outcomes(S)] :
                    /\ g["Extraction"] \in Outcomes(R)
                    /\ g["VulnerabilityScan"] \in Outcomes(R)
                    /\ g["Summary"] \in Outcomes(S)}
    /\ parserImpl = impl
    /\ mainPc = "stat"
    /\ fileRead = FALSE
    /\ tpc = [t \in Tasks |-> "idle"]
    /\ pending = [t \in Tasks |-> <<>>]
    /\ chans = [t \in Tasks |-> EmptyChan]
    /\ wg = 0
    /\ closerPc = "idle"
    /\ result = NoResult
    /\ retErr = Nil
    /\ genCalls = {}
    /\ panicked = FALSE

SniffIdle ==
    /\ sniffFiles = <<>>
    /\ sniffTags = <<>>

StrIdle ==
    /\ strInput = Nil
    /\ strOutput = <<>>

RevIdle ==
    /\ revFile = Nil
    /\ revPc = "idle"
    /\ revInfo = NoResult
    /\ revErr = Nil

HelperIdle ==
    /\ typeInput = Nil
    /\ typeOutput = Nil
    /\ ctorOptions = Nil
    /\ ctorReturn = Nil

NotesIdle ==
    /\ now = 0
    /\ notes = <<>>
    /\ saved = NoResult
    /\ currentNoteID = 0
    /\ notepad = ""

Init ==
    AgentInit(Files, Responses, Responses, "placeholder")
        /\ SniffIdle /\ StrIdle /\ RevIdle /\ HelperIdle /\ NotesIdle

(***************************************************************************)
(* The calling goroutine, up to the launch of the tasks.                   *)
(***************************************************************************)
\* fileInfo, err := os.Stat(filePath)
Stat ==
    /\ mainPc = "stat"
    /\ IF file.exists
         THEN mainPc' = "sizeCheck" /\ UNCHANGED retErr
         ELSE mainPc' = "returned" /\ retErr' = "failed to access file"
    /\ UNCHANGED <<file, gen, parserImpl, fileRead, tpc, pending, chans, wg,
                   closerPc, result, genCalls, panicked, sniffVars, strVars, revVars, helperVars,
                   noteVars>>

SizeExceedsOrEqual(size) == size >= maxSize

SizeExceeds(size) == size > maxSize

\* if fileInfo.Size() > maxSize
SizeCheck ==
    /\ mainPc = "sizeCheck"
    /\ IF SizeExceeds(file.size)
         THEN mainPc' = "returned" /\ retErr' = "file too large"
         ELSE mainPc' = "read" /\ UNCHANGED retErr
    /\ UNCHANGED <<file, gen, parserImpl, fileRead, tpc, pending, chans, wg,
                   closerPc, result, genCalls, panicked, sniffVars, strVars, revVars, helperVars,
                   noteVars>>

ReadErrorIgnored(f) == TRUE

\* ioutil.ReadFile returns a nil error
ReadSucceeds(f) == f.readable

\* fileContent, err := ioutil.ReadFile(filePath)
ReadFile ==
    /\ mainPc = "read"
    /\ IF ReadSucceeds(file)
         THEN mainPc' = "launch" /\ fileRead' = TRUE /\ UNCHANGED retErr
         ELSE /\ mainPc' = "returned"
              /\ retErr' = "failed to read file"
              /\ UNCHANGED fileRead
    /\ UNCHANGED <<file, gen, parserImpl, tpc, pending, chans, wg,
                   closerPc, result, genCalls, panicked, sniffVars, strVars, revVars, helperVars,
                   noteVars>>

NewResultWithSummary ==
    [Filename |-> file.name,
     FileType |-> determineFileType(file.ext, file.content),
     FileSize |-> file.size,
     Findings |-> <<>>,
     Summary |-> <<0>>,
     Vulnerabilities |-> <<>>]

NewResult ==
    [Filename |-> file.name,
     FileType |-> determineFileType(file.ext, file.content),
     FileSize |-> file.size,
     Findings |-> <<>>,
     Summary |-> <<>>,
     Vulnerabilities |-> <<>>]

\* result := &AnalysisResult{...}; the three make(chan ...); wg.Add(3); the
\* four go statements.
Launch ==
    /\ mainPc = "launch"
    /\ result' = NewResult
    /\ chans' = [t \in Tasks |-> EmptyChan]
    /\ wg' = 3
    /\ tpc' = [t \in Tasks |-> "start"]
    /\ closerPc' = "wait"
    /\ mainPc' = "collectFindings"
    /\ UNCHANGED <<file, gen, parserImpl, fileRead, pending, retErr, genCalls,
                   panicked, sniffVars, strVars, revVars, helperVars,
                   noteVars>>

(***************************************************************************)
(* The three task goroutines.                                              *)
(***************************************************************************)
CallGenerateLocked(t) ==
    /\ \A u \in Tasks : tpc[u] # "generating"
    /\ tpc[t] = "start"
    /\ tpc' = [tpc EXCEPT ![t] = "generating"]
    /\ genCalls' = genCalls \cup {t}
    /\ UNCHANGED <<file, gen, parserImpl, mainPc, fileRead, pending, chans,
                   wg, closerPc, result, retErr, panicked, sniffVars, strVars, revVars, helperVars,
                   noteVars>>

\* prompt := generate...Prompt(fileType, fileContent); the call of
\* a.model.Generate(prompt) is made.
CallGenerate(t) ==
    /\ tpc[t] = "start"
    /\ tpc' = [tpc EXCEPT ![t] = "generating"]
    /\ genCalls' = genCalls \cup {t}
    /\ UNCHANGED <<file, gen, parserImpl, mainPc, fileRead, pending, chans,
                   wg, closerPc, result, retErr, panicked, sniffVars, strVars, revVars, helperVars,
                   noteVars>>

FailedNever(outcome) == FALSE

\* if err != nil
Failed(outcome) == outcome.kind = "err"

\* Generate returns.  On an error the task logs and returns, which runs the
\* deferred wg.Done(); otherwise the response is parsed.
GenerateReturn(t) ==
    /\ tpc[t] = "generating"
    /\ gen[t].kind # "hang"
    /\ IF Failed(gen[t])
         THEN /\ tpc' = [tpc EXCEPT ![t] = "failed"]
              /\ wg' = wg - 1
              /\ UNCHANGED pending
         ELSE /\ tpc' = [tpc EXCEPT ![t] = "sending"]
              /\ pending' = [pending EXCEPT ![t] = Parsed(t, gen[t].response)]
              /\ UNCHANGED wg
    /\ UNCHANGED <<file, gen, parserImpl, mainPc, fileRead, chans, closerPc,
                   result, retErr, genCalls, panicked, sniffVars, strVars, revVars, helperVars,
                   noteVars>>

CanSendAlways(ch, cap) == TRUE

\* len(ch) < cap(ch): a send on a buffered channel goes through.
CanSend(ch, cap) == Len(ch.buf) < cap

\* findingsChan <- f   (vulnChan <- v, summaryChan <- response): blocks
\* while the buffer is full, panics when the channel is closed.
Send(t) ==
    /\ tpc[t] = "sending"
    /\ pending[t] # <<>>
    /\ ~panicked
    /\ IF chans[t].closed
         THEN panicked' = TRUE /\ UNCHANGED <<chans, pending>>
         ELSE /\ CanSend(chans[t], Cap(t))
              /\ chans' = [chans EXCEPT
                              ![t].buf = Append(@, Head(pending[t]))]
              /\ pending' = [pending EXCEPT ![t] = Tail(@)]
              /\ UNCHANGED panicked
    /\ UNCHANGED <<file, gen, parserImpl, mainPc, fileRead, tpc, wg, closerPc,
                   result, retErr, genCalls, sniffVars, strVars, revVars, helperVars,
                   noteVars>>

\* The loop is over: the goroutine returns and the deferred wg.Done() runs.
TaskDone(t) ==
    /\ tpc[t] = "sending"
    /\ pending[t] = <<>>
    /\ tpc' = [tpc EXCEPT ![t] = "succeeded"]
    /\ wg' = wg - 1
    /\ UNCHANGED <<file, gen, parserImpl, mainPc, fileRead, pending, chans,
                   closerPc, result, retErr, genCalls, panicked, sniffVars, strVars, revVars, helperVars,
                   noteVars>>

(***************************************************************************)
(* The goroutine that closes the channels.                                 *)
(***************************************************************************)
WaitReturnsEarly(counter) == counter <= 1

WaitReturnsAtOnce(counter) == TRUE

WaitReturnsWithTwoLeft(counter) == counter <= 2

\* wg.Wait() returns when the counter is zero.
WaitReturns(counter) == counter = 0

\* wg.Wait()
CloserWait ==
    /\ closerPc = "wait"
    /\ WaitReturns(wg)
    /\ closerPc' = "closeFindings"
    /\ UNCHANGED <<file, gen, parserImpl, mainPc, fileRead, tpc, pending,
                   chans, wg, result, retErr, genCalls, panicked, sniffVars, strVars, revVars, helperVars,
                   noteVars>>

CloseStep(from, t, to) ==
    /\ closerPc = from
    /\ ~panicked
    /\ closerPc' = to
    /\ IF chans[t].closed
         THEN panicked' = TRUE /\ UNCHANGED chans
         ELSE chans' = [chans EXCEPT ![t].closed = TRUE] /\ UNCHANGED panicked
    /\ UNCHANGED <<file, gen, parserImpl, mainPc, fileRead, tpc, pending, wg,
                   result, retErr, genCalls, sniffVars, strVars, revVars, helperVars,
                   noteVars>>

\* close(findingsChan)
CloseFindings == CloseStep("closeFindings", "Extraction", "closeVuln")

CloseVulnAsFindings == CloseStep("closeVuln", "Extraction", "closeSummary")

\* close(vulnChan)
CloseVuln == CloseStep("closeVuln", "VulnerabilityScan", "closeSummary")

\* close(summaryChan)
CloseSummary == CloseStep("closeSummary", "Summary", "done")

(***************************************************************************)
(* The calling goroutine: the three range loops and the return.            *)
(***************************************************************************)
CollectedInFront(res, t, item) ==
    CASE t = "Extraction" ->
            [res EXCEPT !.Findings = <<item>> \o @]
      [] t = "VulnerabilityScan" ->
            [res EXCEPT !.Vulnerabilities = <<item>> \o @]
      [] t = "Summary" ->
            [res EXCEPT !.Summary = item]

\* The field of the result a received item goes to.
Collected(res, t, item) ==
    CASE t = "Extraction" ->
            [res EXCEPT !.Findings = Append(@, item)]
      [] t = "VulnerabilityScan" ->
            [res EXCEPT !.Vulnerabilities = Append(@, item)]
      [] t = "Summary" ->
            [res EXCEPT !.Summary = item]

RangeNoWait(from, t, to) ==
    /\ mainPc = from
    /\ IF chans[t].buf # <<>>
         THEN /\ result' = Collected(result, t, Head(chans[t].buf))
              /\ chans' = [chans EXCEPT ![t].buf = Tail(@)]
              /\ UNCHANGED mainPc
         ELSE /\ mainPc' = to
              /\ UNCHANGED <<result, chans>>
    /\ UNCHANGED <<file, gen, parserImpl, fileRead, tpc, pending, wg,
                   closerPc, retErr, genCalls, panicked, sniffVars, strVars, revVars, helperVars,
                   noteVars>>

RangeAfterClose(from, t, to) ==
    /\ mainPc = from
    /\ chans[t].closed
    /\ IF chans[t].buf # <<>>
         THEN /\ result' = Collected(result, t, Head(chans[t].buf))
              /\ chans' = [chans EXCEPT ![t].buf = Tail(@)]
              /\ UNCHANGED mainPc
         ELSE /\ mainPc' = to
              /\ UNCHANGED <<result, chans>>
    /\ UNCHANGED <<file, gen, parserImpl, fileRead, tpc, pending, wg,
                   closerPc, retErr, genCalls, panicked, sniffVars, strVars, revVars, helperVars,
                   noteVars>>

\* One iteration of `for x := range ch`: receive the oldest buffered item,
\* or leave the loop when the channel is closed and drained.
Range(from, t, to) ==
    /\ mainPc = from
    /\ IF chans[t].buf # <<>>
         THEN /\ result' = Collected(result, t, Head(chans[t].buf))
              /\ chans' = [chans EXCEPT ![t].buf = Tail(@)]
              /\ UNCHANGED mainPc
         ELSE /\ chans[t].closed
              /\ mainPc' = to
              /\ UNCHANGED <<result, chans>>
    /\ UNCHANGED <<file, gen, parserImpl, fileRead, tpc, pending, wg,
                   closerPc, retErr, genCalls, panicked, sniffVars, strVars, revVars, helperVars,
                   noteVars>>

\* for finding := range findingsChan
CollectFindings == Range("collectFindings", "Extraction", "collectVulns")

\* for vuln := range vulnChan
CollectVulns == Range("collectVulns", "VulnerabilityScan", "collectSummary")

\* for summary := range summaryChan, then return result, nil
CollectSummary == Range("collectSummary", "Summary", "returned")

MainStep ==
    Stat \/ SizeCheck \/ ReadFile \/ Launch
        \/ CollectFindings \/ CollectVulns \/ CollectSummary

TaskStep(t) ==
    CallGenerate(t) \/ GenerateReturn(t) \/ Send(t) \/ TaskDone(t)

CloserStep == CloserWait \/ CloseFindings \/ CloseVuln \/ CloseSummary

Next ==
    \/ Stat
    \/ SizeCheck
    \/ ReadFile
    \/ Launch
    \/ \E t \in Tasks : CallGenerate(t)
    \/ \E t \in Tasks : GenerateReturn(t)
    \/ \E t \in Tasks : Send(t)
    \/ \E t \in Tasks : TaskDone(t)
    \/ CloserWait
    \/ CloseFindings
    \/ CloseVuln
    \/ CloseSummary
    \/ CollectFindings
    \/ CollectVulns
    \/ CollectSummary

Spec == Init /\ [][Next]_vars

\* The Go scheduler runs every runnable goroutine eventually.
Fairness ==
    /\ WF_vars(MainStep)
    /\ WF_vars(CloserStep)
    /\ \A t \in Tasks : WF_vars(TaskStep(t))

FairSpec == Init /\ [][Next]_vars /\ Fairness

\* The same orchestrator with a parser that yields one item per response
\* line, for a file that passes the checks.
GoodFiles == {f \in Files : f.exists /\ f.readable /\ f.size = 2}

InitLines ==
    AgentInit(GoodFiles, LineResponses, Responses, "perLine")
        /\ SniffIdle /\ StrIdle /\ RevIdle /\ HelperIdle /\ NotesIdle

SpecLines == InitLines /\ [][Next]_vars

\* Responses of no line and of as many lines as the findings channel
\* holds, or more.
OverflowCounts == {0} \cup FindingsChanCap..MaxLines

OverflowResponses == {[i \in 1..n |-> i] : n \in OverflowCounts}

\* The orchestrator with the per-line parser on these responses, under the
\* scheduling of FairSpec.
InitOverflow ==
    AgentInit(GoodFiles, OverflowResponses, {<<1>>}, "perLine")
        /\ SniffIdle /\ StrIdle /\ RevIdle /\ HelperIdle /\ NotesIdle

FairSpecOverflow == InitOverflow /\ [][Next]_vars /\ Fairness

TypeOK ==
    /\ mainPc \in {"stat", "sizeCheck", "read", "launch", "collectFindings",
                   "collectVulns", "collectSummary", "returned"}
    /\ wg \in 0..3
    /\ \A t \in Tasks : Len(chans[t].buf) <= Cap(t)

(***************************************************************************)
(* Package reverse: identifyFileType.                                      *)
(*                                                                         *)
(* A file is its length, its leading bytes and the verdict of the          *)
(* debug/pe, debug/elf and debug/macho readers on its whole content        *)
(* (structure): a reader accepts a file only when the file starts as that  *)
(* format requires, and debug/pe also accepts a COFF object, which has no  *)
(* "MZ" stub.                                                              *)
(***************************************************************************)
HeaderLen == 16

MZ == <<77, 90>>
ELFMagic == <<127, 69, 76, 70>>
MachOMagics ==
    {<<254, 237, 250, 206>>, <<206, 250, 237, 254>>,
     <<254, 237, 250, 207>>, <<207, 250, 237, 254>>}

\* Leading bytes that are not a magic of the sniffer: a COFF object
\* (machine 0x014c), a fat Mach-O, near misses and zeros.
CoffI386 == <<76, 1, 3, 0>>
OtherLeads ==
    {CoffI386, <<202, 254, 186, 190>>, <<77, 91, 0, 0>>, <<127, 69, 76, 71>>,
     <<0, 0, 0, 0>>}

Leads == {<<77, 90, 144, 0>>, ELFMagic} \cup MachOMagics \cup OtherLeads

Zeros(n) == [i \in 1..n |-> 0]

\* The structures the readers can accept for a file with these bytes.
Structures(lead, size) ==
    {"none"}
      \cup (IF size > HeaderLen /\ SubSeq(lead, 1, 2) = MZ THEN {"PE"} ELSE {})
      \cup (IF size > HeaderLen /\ lead = CoffI386 THEN {"PE"} ELSE {})
      \cup (IF size > HeaderLen /\ lead = ELFMagic THEN {"ELF"} ELSE {})
      \cup (IF size > HeaderLen /\ lead \in MachOMagics
              THEN {"Mach-O"} ELSE {})

SniffSizes == {0, 2, 8, 16, 64}

FileOf(lead, fifth, size, openable, structure) ==
    [openable |-> openable,
     size |-> size,
     bytes |-> Take(lead \o <<fifth>> \o Zeros(HeaderLen - 5), size),
     structure |-> structure]

SniffFileSet ==
    UNION {
        {FileOf(lead, fifth, size, TRUE, st) :
            st \in Structures(lead, size), fifth \in {0, 2}}
        : lead \in Leads, size \in SniffSizes}
    \cup {FileOf(ELFMagic, 0, 64, FALSE, "ELF")}

\* The readers of the standard library, called on the open file.
peNewFile(f) == f.structure = "PE"
elfNewFile(f) == f.structure = "ELF"
machoNewFile(f) == f.structure = "Mach-O"

\* header := make([]byte, 16); file.Read(header): the buffer keeps its
\* zeros past the end of a shorter file.
ReadHeader(f) == f.bytes \o Zeros(HeaderLen - Len(f.bytes))

\* file.Read reports io.EOF on an empty file.
ReadFails(f) == f.size = 0

IsMZ(header) == SubSeq(header, 1, 2) = MZ
IsELF(header) == SubSeq(header, 1, 4) = ELFMagic
IsMachO(header) == SubSeq(header, 1, 4) \in MachOMagics

Identified(type) == [type |-> type, err |-> Nil]
NotIdentified(err) == [type |-> "", err |-> err]

SniffUngated(f) ==
    IF ~f.openable THEN NotIdentified("open")
    ELSE IF ReadFails(f) THEN NotIdentified("read")
    ELSE IF peNewFile(f) THEN Identified("PE")
    ELSE IF elfNewFile(f) THEN Identified("ELF")
    ELSE IF machoNewFile(f) THEN Identified("Mach-O")
    ELSE NotIdentified("unknown file type")

identifyFileType(f) ==
    IF ~f.openable THEN NotIdentified("open")
    ELSE IF ReadFails(f) THEN NotIdentified("read")
    ELSE LET header == ReadHeader(f) IN
         IF IsMZ(header) /\ peNewFile(f) THEN Identified("PE")
         ELSE IF IsELF(header) /\ elfNewFile(f) THEN Identified("ELF")
         ELSE IF IsMachO(header) /\ machoNewFile(f) THEN Identified("Mach-O")
         ELSE NotIdentified("unknown file type")

FormatTagRaw(r) == r.type

\* reverse.AnalyzeFile: an error of identifyFileType becomes "Unknown".
FormatTag(r) == IF r.err # Nil THEN "Unknown" ELSE r.type

AgentIdle ==
    /\ file = Nil
    /\ gen = Nil
    /\ parserImpl = "placeholder"
    /\ mainPc = "idle"
    /\ fileRead = FALSE
    /\ tpc = [t \in Tasks |-> "idle"]
    /\ pending = [t \in Tasks |-> <<>>]
    /\ chans = [t \in Tasks |-> EmptyChan]
    /\ wg = 0
    /\ closerPc = "idle"
    /\ result = NoResult
    /\ retErr = Nil
    /\ genCalls = {}
    /\ panicked = FALSE

\* Two files on disk, each sniffed up to MaxCalls times.
InitSniff ==
    /\ AgentIdle
    /\ StrIdle
    /\ RevIdle
    /\ HelperIdle
    /\ NotesIdle
    /\ sniffFiles \in [1..2 -> SniffFileSet]
    /\ sniffTags = [i \in 1..2 |-> <<>>]

\* fileType, err := identifyFileType(path)
Identify(i) ==
    /\ Len(sniffTags[i]) < MaxCalls
    /\ sniffTags' = [sniffTags EXCEPT
                        ![i] = Append(@, identifyFileType(sniffFiles[i]))]
    /\ UNCHANGED <<agentVars, sniffFiles, strVars, revVars, helperVars,
                   noteVars>>

NextSniff == \E i \in 1..2 : Identify(i)

SpecSniff == InitSniff /\ [][NextSniff]_vars

(***************************************************************************)
(* Properties of Agent.AnalyzeFile.                                        *)
(***************************************************************************)
Returned == mainPc = "returned"

\* The file passes the three checks that precede the launch of the tasks.
FileAccepted == file.exists /\ file.size <= 10485760 /\ file.readable

Terminal(t) == tpc[t] \in {"failed", "succeeded"}

OnlyFails(T) ==
    /\ gen[T].kind = "err"
    /\ \A u \in Tasks \ {T} : gen[u].kind = "ok"

\* What a task is expected to contribute to the result.
Contribution(t) ==
    CASE t = "Extraction" ->
            IF gen[t].kind = "ok"
              THEN parseFindings(gen[t].response) ELSE <<>>
      [] t = "VulnerabilityScan" ->
            IF gen[t].kind = "ok"
              THEN parseVulnerabilities(gen[t].response) ELSE <<>>
      [] t = "Summary" ->
            IF gen[t].kind = "ok" THEN gen[t].response ELSE <<>>

FieldOf(res, t) ==
    CASE t = "Extraction" -> res.Findings
      [] t = "VulnerabilityScan" -> res.Vulnerabilities
      [] t = "Summary" -> res.Summary

\* C1: when exactly one task's Generate call fails and the other two
\* succeed, AnalyzeFile returns a nil error and a result that holds the
\* items of the two successful tasks, while the field fed by the failed task
\* is empty.
C1_OneFailureKeepsTheOthers ==
    \A T \in Tasks :
        (Returned /\ FileAccepted /\ OnlyFails(T)) =>
            /\ retErr = Nil
            /\ result # NoResult
            /\ FieldOf(result, T) = <<>>
            /\ \A u \in Tasks \ {T} : FieldOf(result, u) = Contribution(u)
            /\ Len(result.Findings) = (IF T = "Extraction" THEN 0 ELSE 1)
            /\ Len(result.Vulnerabilities) =
                   (IF T = "VulnerabilityScan" THEN 0 ELSE 1)

C1_Witness ==
    /\ Returned
    /\ OnlyFails("VulnerabilityScan")
    /\ result # NoResult
    /\ Len(result.Findings) = 1
    /\ result.Vulnerabilities = <<>>
    /\ result.Summary = <<2>>

\* C2: when all three Generate calls fail, AnalyzeFile returns a nil error
\* and a result without findings, without vulnerabilities and with an empty
\* summary, whose file name, file type and size are set.
C2_AllFailIsInconclusive ==
    (Returned /\ FileAccepted /\ \A t \in Tasks : gen[t].kind = "err") =>
        /\ retErr = Nil
        /\ result # NoResult
        /\ result.Findings = <<>>
        /\ result.Vulnerabilities = <<>>
        /\ result.Summary = <<>>
        /\ result.Filename = file.name
        /\ result.FileSize = file.size
        /\ result.FileType = determineFileType(file.ext, file.content)

C2_Witness ==
    /\ Returned
    /\ \A t \in Tasks : tpc[t] = "failed"
    /\ result # NoResult
    /\ result.FileType = "Binary"

NothingInFlight ==
    \A t \in Tasks : chans[t].buf = <<>> /\ pending[t] = <<>>

\* C3: the result is returned only after all three tasks have reached a
\* terminal state, with no item still to be sent or received, and the
\* result does not change after the return.
C3_ReturnAfterAllTasks ==
    /\ []((Returned /\ result # NoResult) =>
             ((\A t \in Tasks : Terminal(t)) /\ NothingInFlight))
    /\ [][Returned => result' = result]_vars

C3_Witness ==
    /\ Returned
    /\ result # NoResult
    /\ tpc["Extraction"] = "succeeded"
    /\ tpc["VulnerabilityScan"] = "failed"
    /\ tpc["Summary"] = "succeeded"
    /\ Len(result.Findings) = 1

AllGenerateReturn == \A t \in Tasks : gen[t].kind # "hang"

\* C4: with the placeholder parsers, when every Generate call returns, no
\* task stays blocked on a send and AnalyzeFile eventually returns.
C4_EventuallyReturns ==
    AllGenerateReturn ~>
        (Returned /\ (FileAccepted => \A t \in Tasks : Terminal(t)))

C4_Witness ==
    /\ Returned
    /\ AllGenerateReturn
    /\ \A t \in Tasks : tpc[t] = "succeeded"
    /\ closerPc = "done"

\* C5: when the Generate call of some task never returns, AnalyzeFile never
\* returns, whatever the other tasks have done.
C5_HungGenerateStallsTheCall ==
    (FileAccepted /\ \E t \in Tasks : gen[t].kind = "hang") => ~Returned

C5_Witness ==
    /\ gen["Summary"].kind = "hang"
    /\ tpc["Summary"] = "generating"
    /\ tpc["Extraction"] = "succeeded"
    /\ tpc["VulnerabilityScan"] = "succeeded"
    /\ mainPc = "collectFindings"
    /\ Len(result.Findings) = 1
    /\ chans["Extraction"].buf = <<>>
    /\ Len(chans["VulnerabilityScan"].buf) = 1

TooLarge == retErr = "file too large"

SizeChecked == file.exists /\ mainPc \notin {"stat", "sizeCheck"}

\* C6: a file is rejected for its size exactly when the size is greater than
\* 10485760 bytes; the rejected call returns an error and no result, and has
\* read no content, started no task and made no Generate call.
C6_SizeCap ==
    /\ SizeChecked => (TooLarge <=> file.size > 10485760)
    /\ TooLarge =>
          /\ Returned
          /\ result = NoResult
          /\ ~fileRead
          /\ genCalls = {}
          /\ \A t \in Tasks : tpc[t] = "idle"
          /\ closerPc = "idle"

C6_Witness ==
    /\ TooLarge
    /\ Returned
    /\ file.size = 10485761
    /\ result = NoResult

AccessFails == ~file.exists \/ ~file.readable

\* C7: when os.Stat or the read of the content fails, AnalyzeFile returns an
\* error and a nil result, and no task is started and no Generate call made.
C7_AccessError ==
    /\ (Returned /\ AccessFails) =>
          /\ retErr # Nil
          /\ result = NoResult
    /\ AccessFails =>
          /\ genCalls = {}
          /\ \A t \in Tasks : tpc[t] = "idle"
          /\ closerPc = "idle"
          /\ ~fileRead

C7_Witness ==
    /\ Returned
    /\ file.exists
    /\ ~file.readable
    /\ retErr = "failed to read file"

ExpectedResult ==
    [Filename |-> file.name,
     FileType |-> determineFileType(file.ext, file.content),
     FileSize |-> file.size,
     Findings |-> Contribution("Extraction"),
     Summary |-> Contribution("Summary"),
     Vulnerabilities |-> Contribution("VulnerabilityScan")]

\* C8: the returned result is determined by the file and the outcomes of
\* the three Generate calls, whatever the interleaving, and a task that has
\* been started can call Generate whatever the other tasks have done.
C8_ResultIndependentOfInterleaving ==
    /\ (Returned /\ retErr = Nil) => result = ExpectedResult
    /\ \A t \in Tasks : tpc[t] = "start" => ENABLED CallGenerate(t)

C8_Witness ==
    /\ Returned
    /\ retErr = Nil
    /\ \A t \in Tasks : gen[t].kind = "ok"
    /\ gen["Extraction"].response = <<1>>
    /\ gen["VulnerabilityScan"].response = <<2>>
    /\ gen["Summary"].response = <<>>
    /\ result = ExpectedResult

ItemTasks == {"Extraction", "VulnerabilityScan"}

Calls(i) == 1..Len(sniffTags[i])

Tag(i, k) == FormatTag(sniffTags[i][k])

\* The first 16 bytes of the file (all of them when the file is shorter).
First16(i) == sniffFiles[i].bytes

RecognisedMagic(b) ==
    \/ Len(b) >= 2 /\ b[1] = 77 /\ b[2] = 90
    \/ Len(b) >= 4 /\ <<b[1], b[2], b[3], b[4]>> \in
          {<<127, 69, 76, 70>>, <<254, 237, 250, 206>>,
           <<206, 250, 237, 254>>, <<254, 237, 250, 207>>,
           <<207, 250, 237, 254>>}

\* C10 as stated: the tag is a function of the first 16 bytes only, so two
\* files with the same first 16 bytes always get the same tag.
C10_TagFunctionOfHeaderOnly ==
    \A i, j \in 1..2 : \A k \in Calls(i), l \in Calls(j) :
        First16(i) = First16(j) => Tag(i, k) = Tag(j, l)

\* C10 as amended: the tag depends on the first 16 bytes and on the outcome
\* of opening the file and of the structural parse of its whole content.  A
\* header without a recognised magic always gives Unknown; two files with
\* the same first 16 bytes get the same tag when both can be opened and the
\* structural parse gives the same verdict on both, and otherwise differ
\* only in that one of them is Unknown; repeated calls on one file give the
\* same tag.
C10_TagFunctionOfHeaderAndParse ==
    \A i, j \in 1..2 : \A k \in Calls(i), l \in Calls(j) :
        /\ Tag(i, k) \in {"PE", "ELF", "Mach-O", "Unknown"}
        /\ ~RecognisedMagic(First16(i)) => Tag(i, k) = "Unknown"
        /\ First16(i) = First16(j) =>
              \/ Tag(i, k) = Tag(j, l)
              \/ "Unknown" \in {Tag(i, k), Tag(j, l)}
        /\ ( /\ First16(i) = First16(j)
             /\ sniffFiles[i].openable = sniffFiles[j].openable
             /\ sniffFiles[i].structure = sniffFiles[j].structure )
              => Tag(i, k) = Tag(j, l)
        /\ i = j => Tag(i, k) = Tag(j, l)

C10_Witness ==
    /\ sniffFiles[1] # sniffFiles[2]
    /\ First16(1) = First16(2)
    /\ Len(First16(1)) = 16
    /\ sniffFiles[1].openable /\ sniffFiles[2].openable
    /\ Len(sniffTags[1]) = 2
    /\ Len(sniffTags[2]) = 2
    /\ Tag(1, 1) = "ELF"
    /\ Tag(1, 2) = "ELF"
    /\ Tag(2, 2) = "Unknown"

(***************************************************************************)
(* Package reverse: extractStrings.  Strings are sequences of byte values. *)
(***************************************************************************)
MinLineLen == 4
MinRun == 4

\* The white space strings.TrimSpace removes (ASCII part).
IsSpace(c) == c \in {9, 10, 11, 12, 13, 32}

RECURSIVE TrimLeft(_)
TrimLeft(s) ==
    IF s # <<>> /\ IsSpace(Head(s)) THEN TrimLeft(Tail(s)) ELSE s

RECURSIVE TrimRight(_)
TrimRight(s) ==
    IF s # <<>> /\ IsSpace(s[Len(s)])
      THEN TrimRight(SubSeq(s, 1, Len(s) - 1)) ELSE s

\* strings.TrimSpace(line)
TrimSpace(s) == TrimRight(TrimLeft(s))

\* strings.Split(string(output), "\n"): the pieces between the newlines, one
\* (empty) piece for an empty text.
RECURSIVE Split(_, _)
Split(text, cur) ==
    IF text = <<>> THEN <<cur>>
    ELSE IF Head(text) = 10 THEN <<cur>> \o Split(Tail(text), <<>>)
    ELSE Split(Tail(text), Append(cur, Head(text)))

KeepLineNonEmpty(trimmed) == Len(trimmed) > 0

\* if len(trimmed) >= 4
KeepLine(trimmed) == Len(trimmed) >= MinLineLen

RECURSIVE KeptLines(_)
KeptLines(lines) ==
    IF lines = <<>> THEN <<>>
    ELSE LET trimmed == TrimSpace(Head(lines)) IN
         (IF KeepLine(trimmed) THEN <<trimmed>> ELSE <<>>)
             \o KeptLines(Tail(lines))

\* The character class of the fallback pattern:
\* [A-Za-z0-9/\-:.,_$%'()[\]<> ]
InClass(b) ==
    \/ b \in 65..90
    \/ b \in 97..122
    \/ b \in 48..57
    \/ b \in {47, 45, 58, 46, 44, 95, 36, 37, 39, 40, 41, 91, 93, 60, 62, 32}

\* The pattern matches at start: at least MinRun class characters follow.
MatchAt(data, start) ==
    \A k \in start..(start + MinRun - 1) : k <= Len(data) /\ InClass(data[k])

MatchEndLazy(data, start) == start + MinRun - 1

\* {4,} is greedy: the match runs to the last class character in a row.
RECURSIVE MatchEnd(_, _)
MatchEnd(data, start) ==
    IF start < Len(data) /\ InClass(data[start + 1])
      THEN MatchEnd(data, start + 1) ELSE start

\* re.FindAllString(string(data), -1): successive leftmost matches, each
\* search resuming after the previous match.
RECURSIVE FindAllFrom(_, _)
FindAllFrom(data, pos) ==
    IF pos > Len(data) THEN <<>>
    ELSE IF MatchAt(data, pos)
      THEN LET e == MatchEnd(data, pos) IN
           <<SubSeq(data, pos, e)>> \o FindAllFrom(data, e + 1)
      ELSE FindAllFrom(data, pos + 1)

FindAllString(data) == FindAllFrom(data, 1)

\* in: whether the strings command ran without error and what it printed,
\* whether the file can be read, and its bytes.
extractStrings(in) ==
    IF in.cmd = "ok"
      THEN [strings |-> KeptLines(Split(in.output, <<>>)), err |-> Nil]
    ELSE IF ~in.readable
      THEN [strings |-> <<>>, err |-> "read"]
    ELSE [strings |-> FindAllString(in.data), err |-> Nil]

\* "ab\x00cdef\x00gh"
SampleData == <<97, 98, 0, 99, 100, 101, 102, 0, 103, 104>>

StrInputs ==
    {[cmd |-> "ok", output |-> o, readable |-> TRUE, data |-> <<>>] :
        o \in SeqsUpTo({10, 32, 97}, MaxOut)}
    \cup
    {[cmd |-> "fail", output |-> <<>>, readable |-> TRUE, data |-> d] :
        d \in SeqsUpTo({0, 97}, MaxData) \cup {SampleData}}
    \cup
    {[cmd |-> "fail", output |-> <<>>, readable |-> FALSE, data |-> <<>>]}

InitStrings ==
    /\ AgentIdle
    /\ SniffIdle
    /\ RevIdle
    /\ HelperIdle
    /\ NotesIdle
    /\ strInput \in StrInputs
    /\ strOutput = <<>>

\* strings, err := extractStrings(path)
ExtractStrings ==
    /\ strOutput = <<>>
    /\ strOutput' = <<extractStrings(strInput)>>
    /\ UNCHANGED <<agentVars, sniffVars, strInput, revVars, helperVars,
                   noteVars>>

NextStrings == ExtractStrings

SpecStrings == InitStrings /\ [][NextStrings]_vars

(***************************************************************************)
(* Properties of extractStrings.                                           *)
(***************************************************************************)
Extracted == strOutput # <<>>

\* C19: extractStrings never emits a string shorter than 4 characters,
\* whether it comes from the strings command or from the fallback pattern.
C19_NoShortString ==
    Extracted =>
        \A i \in 1..Len(strOutput[1].strings) :
            Len(strOutput[1].strings[i]) >= 4

C19_Witness ==
    /\ Extracted
    /\ strInput.cmd = "ok"
    /\ strInput.output = <<97, 10, 97, 97, 97, 97>>
    /\ strOutput[1].strings = << <<97, 97, 97, 97>> >>

\* The maximal runs of class characters of length >= 4, as pairs <<first,
\* last>> of positions.
MaximalRuns(d) ==
    {r \in (1..Len(d)) \X (1..Len(d)) :
        /\ r[2] - r[1] + 1 >= 4
        /\ \A k \in r[1]..r[2] : InClass(d[k])
        /\ r[1] = 1 \/ ~InClass(d[r[1] - 1])
        /\ r[2] = Len(d) \/ ~InClass(d[r[2] + 1])}

\* C20: the fallback extractor returns exactly the maximal runs of
\* allow-listed characters of length >= 4, in order of occurrence; for
\* "ab\x00cdef\x00gh" it returns the single string "cdef".
C20_FallbackMaximalRuns ==
    (Extracted /\ strInput.cmd = "fail" /\ strInput.readable) =>
        LET d == strInput.data
            out == strOutput[1].strings
            runs == MaximalRuns(d)
        IN  /\ strOutput[1].err = Nil
            /\ Len(out) = Cardinality(runs)
            /\ \A r \in runs :
                  out[1 + Cardinality({q \in runs : q[1] < r[1]})]
                      = SubSeq(d, r[1], r[2])
            /\ d = <<97, 98, 0, 99, 100, 101, 102, 0, 103, 104>> =>
                  out = << <<99, 100, 101, 102>> >>

C20_Witness ==
    /\ Extracted
    /\ strInput.cmd = "fail"
    /\ strInput.data = <<97, 98, 0, 99, 100, 101, 102, 0, 103, 104>>
    /\ strOutput[1].strings = << <<99, 100, 101, 102>> >>

(***************************************************************************)
(* Package reverse: the container parsers and AnalyzeFile.                 *)
(*                                                                         *)
(* Formatted text is kept as its characters: hexadecimal digits are the    *)
(* numbers 0..15, other text is a sequence of byte values.                 *)
(***************************************************************************)
RECURSIVE HexDigits(_)
HexDigits(n) ==
    IF n < 16 THEN <<n>> ELSE Append(HexDigits(n \div 16), n % 16)

RECURSIVE DecimalText(_)
DecimalText(n) ==
    IF n < 10 THEN <<48 + n>> ELSE Append(DecimalText(n \div 10), 48 + (n % 10))

\* The verb %x applied to a string: two digits per byte.
RECURSIVE HexOfText(_)
HexOfText(t) ==
    IF t = <<>> THEN <<>>
    ELSE <<Head(t) \div 16, Head(t) % 16>> \o HexOfText(Tail(t))

\* x & bit != 0, for a bit that is a power of two.
BitSet(x, bit) == (x \div bit) % 2 = 1

\* An architecture label: a name of the table, or "Unknown (0x<hex>)".
ArchName(name) == [text |-> name, hex |-> <<>>]
NoArch == ArchName("")

\* fmt.Sprintf("Unknown (%#x)", v) for an integer v.
UnknownNumber(v) == [text |-> "Unknown", hex |-> HexDigits(v)]

\* fmt.Sprintf("Unknown (%#x)", v) for a v with a String method: fmt
\* formats the text String returns.
UnknownText(t) == [text |-> "Unknown", hex |-> HexOfText(t)]

\* fmt.Sprintf("%08x", v) for an integer v: digits, zero padded to 8.
FlagsOfNumber(v) ==
    LET d == HexDigits(v) IN
    [pad |-> 0, digits |-> Zeros(IF Len(d) < 8 THEN 8 - Len(d) ELSE 0) \o d]

\* fmt.Sprintf("%08x", v) for a v with a String method: the digits of the
\* text, and the number of padding characters in front of them.
FlagsOfText(t) ==
    LET d == HexOfText(t) IN
    [pad |-> IF Len(d) < 8 THEN 8 - Len(d) ELSE 0, digits |-> d]

\* elf.Machine.String() for the machines of the model.
elfMachineString(m) ==
    CASE m = 3 -> <<69, 77, 95, 51, 56, 54>>
      [] m = 62 -> <<69, 77, 95, 88, 56, 54, 95, 54, 52>>
      [] m = 40 -> <<69, 77, 95, 65, 82, 77>>
      [] m = 183 -> <<69, 77, 95, 65, 65, 82, 67, 72, 54, 52>>
      [] m = 8 -> <<69, 77, 95, 77, 73, 80, 83>>
      [] m = 20 -> <<69, 77, 95, 80, 80, 67>>

\* macho.Cpu.String(): the name of a known cpu, the decimal number of any
\* other.
machoCpuString(c) ==
    CASE c = 7 -> <<67, 112, 117, 51, 56, 54>>
      [] c = 16777223 -> <<67, 112, 117, 65, 109, 100, 54, 52>>
      [] c = 12 -> <<67, 112, 117, 65, 114, 109>>
      [] c = 16777228 -> <<67, 112, 117, 65, 114, 109, 54, 52>>
      [] c = 18 -> <<67, 112, 117, 80, 112, 99>>
      [] c = 16777234 -> <<67, 112, 117, 80, 112, 99, 54, 52>>
      [] OTHER -> DecimalText(c)

\* elf.SectionFlag.String() for flags made of SHF_WRITE, SHF_ALLOC and
\* SHF_EXECINSTR: the names of the bits joined by "+", "0x0" for none.
elfFlagString(x) ==
    LET w == IF BitSet(x, 1) THEN <<<<83, 72, 70, 95, 87, 82, 73, 84, 69>>>> ELSE <<>>
        a == IF BitSet(x, 2) THEN <<<<83, 72, 70, 95, 65, 76, 76, 79, 67>>>> ELSE <<>>
        e == IF BitSet(x, 4) THEN <<<<83, 72, 70, 95, 69, 88, 69, 67, 73, 78, 83, 84, 82>>>> ELSE <<>>
        names == w \o a \o e
        Join[k \in 0..3] ==
            IF k = 0 THEN <<>>
            ELSE IF k = 1 THEN names[1]
            ELSE Join[k - 1] \o <<43>> \o names[k]
    IN  IF names = <<>> THEN <<48, 120, 48>> ELSE Join[Len(names)]

\* switch peFile.Machine
archPE(machine) ==
    CASE machine = 332 -> ArchName("x86")
      [] machine = 34404 -> ArchName("x86_64")
      [] machine = 448 -> ArchName("ARM")
      [] machine = 452 -> ArchName("ARM Thumb-2")
      [] OTHER -> UnknownNumber(machine)

\* switch elfFile.Machine
archELF(machine) ==
    CASE machine = 3 -> ArchName("x86")
      [] machine = 62 -> ArchName("x86_64")
      [] machine = 40 -> ArchName("ARM")
      [] machine = 183 -> ArchName("ARM64")
      [] OTHER -> UnknownText(elfMachineString(machine))

\* switch machoFile.Cpu
archMachO(cpu) ==
    CASE cpu = 7 -> ArchName("x86")
      [] cpu = 16777223 -> ArchName("x86_64")
      [] cpu = 12 -> ArchName("ARM")
      [] cpu = 16777234 -> ArchName("ARM64")
      [] OTHER -> UnknownText(machoCpuString(cpu))

isExecPECode(characteristics) == BitSet(characteristics, 32)

\* section.Characteristics&pe.IMAGE_SCN_MEM_EXECUTE != 0
isExecPE(characteristics) == BitSet(characteristics, 536870912)

\* section.Flags&elf.SHF_EXECINSTR != 0
isExecELF(flags) == BitSet(flags, 4)

\* section.Flags&0x00000400 != 0
isExecMachO(flags) == BitSet(flags, 1024)

\* One Section of the FileInfo, from a section header of the parsed file.
SectionOf(sec, flagsText, isExec) ==
    [Name |-> sec.name,
     Addr |-> sec.addr,
     Size |-> sec.size,
     Offset |-> sec.offset,
     Flags |-> flagsText,
     IsExecutable |-> isExec]

sectionsPE(secs) ==
    [i \in 1..Len(secs) |->
        SectionOf(secs[i], FlagsOfNumber(secs[i].flags),
                  isExecPE(secs[i].flags))]

sectionsELF(secs) ==
    [i \in 1..Len(secs) |->
        SectionOf(secs[i], FlagsOfText(elfFlagString(secs[i].flags)),
                  isExecELF(secs[i].flags))]

sectionsMachO(secs) ==
    [i \in 1..Len(secs) |->
        SectionOf(secs[i], FlagsOfNumber(secs[i].flags),
                  isExecMachO(secs[i].flags))]

\* exp.Name == ".edata" || strings.Contains(exp.Name, "export")
ExportLike(name) == name \in {".edata", ".export", "myexports"}

\* len(match) > 3 && !strings.HasPrefix(match, "_")
RECURSIVE ExportWords(_)
ExportWords(words) ==
    IF words = <<>> THEN <<>>
    ELSE (IF Len(Head(words)) > 3 /\ Head(Head(words)) # 95
            THEN <<Head(words)>> ELSE <<>>) \o ExportWords(Tail(words))

\* The loop over peFile.Sections that collects exportedSymbols; words are
\* the matches of [A-Za-z0-9_]+ in the data of a section.
RECURSIVE exportsPE(_)
exportsPE(secs) ==
    IF secs = <<>> THEN <<>>
    ELSE (IF ExportLike(Head(secs).name)
            THEN ExportWords(Head(secs).words) ELSE <<>>)
         \o exportsPE(Tail(secs))

\* The loop over dynsyms: global functions only.
RECURSIVE importsELF(_)
importsELF(dynsyms) ==
    IF dynsyms = <<>> THEN <<>>
    ELSE (IF Head(dynsyms).bind = "GLOBAL" /\ Head(dynsyms).type = "FUNC"
            THEN <<Head(dynsyms).name>> ELSE <<>>)
         \o importsELF(Tail(dynsyms))

\* os.Open(path) in a container parser: the file may have gone since it was
\* sniffed.
ReopenFails(f) == f.reopen = "fail"

Analyzed(info) == [info |-> info, err |-> Nil]
NotAnalyzed(info, err) == [info |-> info, err |-> err]

analyzePE(f, info) ==
    IF ReopenFails(f) THEN NotAnalyzed(info, "open")
    ELSE IF ~peNewFile(f) THEN NotAnalyzed(info, "pe.NewFile")
    ELSE Analyzed([info EXCEPT
            !.Arch = archPE(f.image.machine),
            !.Imports = f.image.imports,
            !.Exports = exportsPE(f.image.sections),
            !.Sections = @ \o sectionsPE(f.image.sections)])

analyzeELF(f, info) ==
    IF ReopenFails(f) THEN NotAnalyzed(info, "open")
    ELSE IF ~elfNewFile(f) THEN NotAnalyzed(info, "elf.NewFile")
    ELSE Analyzed([info EXCEPT
            !.Arch = archELF(f.image.machine),
            !.IsStripped = (f.image.nsyms = 0),
            !.Imports = @ \o importsELF(f.image.dynsyms),
            !.Sections = @ \o sectionsELF(f.image.sections)])

analyzeMachO(f, info) ==
    IF ReopenFails(f) THEN NotAnalyzed(info, "open")
    ELSE IF ~machoNewFile(f) THEN NotAnalyzed(info, "macho.NewFile")
    ELSE Analyzed([info EXCEPT
            !.Arch = archMachO(f.image.machine),
            !.Imports = f.image.imports,
            !.Sections = @ \o sectionsMachO(f.image.sections)])

StatFailsOrUnopenable(f) == ~f.exists \/ ~f.openable

\* os.Stat(path) returns an error
StatFails(f) == ~f.exists

\* result := &FileInfo{Path: path, Name: filepath.Base(path), Size: ...}
NewFileInfo(f) ==
    [Path |-> f.path,
     Name |-> f.name,
     Size |-> f.size,
     Type |-> "",
     Arch |-> NoArch,
     Imports |-> <<>>,
     Exports |-> <<>>,
     Strings |-> <<>>,
     Sections |-> <<>>,
     IsStripped |-> FALSE]

\* fileType, err := identifyFileType(path) and the if that follows
WithType(f, info) == [info EXCEPT !.Type = FormatTag(identifyFileType(f))]

WithStringsOnError(info, s) ==
    IF s.err # Nil THEN [info EXCEPT !.Strings = s.strings] ELSE info

\* if err == nil { result.Strings = strings }
WithStrings(info, s) ==
    IF s.err = Nil THEN [info EXCEPT !.Strings = s.strings] ELSE info

DispatchByStructure(f, info) ==
    CASE f.structure = "PE" -> analyzePE(f, info).info
      [] f.structure = "ELF" -> analyzeELF(f, info).info
      [] f.structure = "Mach-O" -> analyzeMachO(f, info).info
      [] OTHER -> info

\* switch result.Type: the error a parser returns is dropped.
Dispatch(f, info) ==
    CASE info.Type = "PE" -> analyzePE(f, info).info
      [] info.Type = "ELF" -> analyzeELF(f, info).info
      [] info.Type = "Mach-O" -> analyzeMachO(f, info).info
      [] OTHER -> info

\* reverse.AnalyzeFile(path)
revAnalyzeFile(f) ==
    IF StatFails(f)
      THEN [info |-> NoResult, err |-> "failed to access file"]
      ELSE [info |-> Dispatch(f, WithStrings(WithType(f, NewFileInfo(f)),
                                             extractStrings(f))),
            err |-> Nil]

(***************************************************************************)
(* The files reverse.AnalyzeFile is called on.  image is what the reader   *)
(* of the standard library finds in a file it accepts: the machine (cpu)   *)
(* code, the section headers, the imported symbols, the number of static   *)
(* symbols and the dynamic symbols.                                        *)
(***************************************************************************)
Sec(name, flags, words) ==
    [name |-> name, addr |-> 4096, size |-> 512, offset |-> 1024,
     flags |-> flags, words |-> words]

NoImage ==
    [machine |-> 0, sections |-> <<>>, imports |-> <<>>, nsyms |-> 0,
     dynsyms |-> <<>>]

\* .text is code|execute|read, .data is data|read, .edata holds the words
\* "main", "_init", "run" and "Export1"; the second layout has one section
\* that is executable without being marked as code.
PESections ==
    {<< Sec(".text", 1610612768, <<>>),
        Sec(".data", 1073741888, <<>>),
        Sec(".edata", 1073741888,
            <<<<109, 97, 105, 110>>, <<95, 105, 110, 105, 116>>, <<114, 117, 110>>, <<69, 120, 112, 111, 114, 116, 49>>>>) >>,
     << Sec(".stub", 536870912, <<>>) >>,
     << >>}

\* i386, amd64, ARMNT and ARM64 (which the switch does not list).
PEMachines == {332, 34404, 452, 43620}

PEImages ==
    {[machine |-> m, sections |-> secs, imports |-> <<"ExitProcess">>,
      nsyms |-> 0, dynsyms |-> <<>>] :
        m \in PEMachines, secs \in PESections}

\* EM_386, EM_X86_64, EM_ARM, EM_AARCH64, and EM_MIPS and EM_PPC (which the
\* switch does not list).
ELFMachines == {3, 62, 40, 183, 8, 20}

ELFSections ==
    << Sec("", 0, <<>>), Sec(".text", 6, <<>>), Sec(".data", 3, <<>>) >>

ELFDynsyms ==
    << [name |-> "puts", bind |-> "GLOBAL", type |-> "FUNC"],
       [name |-> "stdout", bind |-> "GLOBAL", type |-> "OBJECT"],
       [name |-> "helper", bind |-> "LOCAL", type |-> "FUNC"] >>

ELFImages ==
    {[machine |-> m, sections |-> ELFSections, imports |-> <<>>,
      nsyms |-> n, dynsyms |-> ELFDynsyms] :
        m \in ELFMachines, n \in {0, 2}}

\* Cpu386, CpuAmd64, CpuArm, CpuArm64, CpuPpc64, CpuPpc and the unnamed
\* 0x9999.
MachOCpus == {7, 16777223, 12, 16777228, 16777234, 18, 39321}

MachOSections ==
    << Sec("__text", 1024, <<>>), Sec("__data", 0, <<>>),
       Sec("__bss", 1, <<>>) >>

MachOImages ==
    {[machine |-> c, sections |-> MachOSections, imports |-> <<"_printf">>,
      nsyms |-> 0, dynsyms |-> <<>>] : c \in MachOCpus}

Images(structure) ==
    CASE structure = "PE" -> PEImages
      [] structure = "ELF" -> ELFImages
      [] structure = "Mach-O" -> MachOImages
      [] OTHER -> {NoImage}

\* The strings command prints "a", " abcd " and "ab"; or it is not there
\* and the file can be read; or neither works.
StrEnvs ==
    {[cmd |-> "ok", output |-> <<97, 10, 32, 97, 98, 99, 100, 32, 10, 97, 98>>, readable |-> TRUE],
     [cmd |-> "fail", output |-> <<>>, readable |-> TRUE],
     [cmd |-> "fail", output |-> <<>>, readable |-> FALSE]}

RevFileOf(lead, fifth, size, openable, structure, image, reopen, env) ==
    LET bytes == Take(lead \o <<fifth>> \o Zeros(HeaderLen - 5), size) IN
    [exists |-> TRUE,
     path |-> "/samples/a",
     name |-> "a",
     openable |-> openable,
     size |-> size,
     bytes |-> bytes,
     structure |-> structure,
     image |-> image,
     reopen |-> reopen,
     cmd |-> env.cmd,
     output |-> env.output,
     readable |-> env.readable,
     data |-> IF size > HeaderLen
                THEN bytes \o <<97, 98, 99, 100>> \o Zeros(size - HeaderLen - 4)
                ELSE bytes]

Unreadable == [cmd |-> "fail", output |-> <<>>, readable |-> FALSE]

RevFileSet ==
    UNION {
        UNION {
            {RevFileOf(lead, 0, 64, TRUE, st, image, reopen, env) :
                image \in Images(st), reopen \in {"ok", "fail"},
                env \in StrEnvs}
            : st \in Structures(lead, 64) \ {"none"}}
        : lead \in Leads}
    \cup
    UNION {
        {RevFileOf(lead, fifth, size, TRUE, "none", NoImage, "ok", env) :
            fifth \in {0, 97}, env \in StrEnvs}
        : lead \in Leads, size \in SniffSizes}
    \cup
    {RevFileOf(ELFMagic, 0, 64, FALSE, "ELF", image, "fail", Unreadable) :
        image \in ELFImages}
    \cup
    {[RevFileOf(ELFMagic, 0, 64, FALSE, "none", NoImage, "fail", Unreadable)
         EXCEPT !.exists = FALSE]}

InitReverse ==
    /\ AgentIdle
    /\ SniffIdle
    /\ StrIdle
    /\ HelperIdle
    /\ NotesIdle
    /\ revFile \in RevFileSet
    /\ revPc = "called"
    /\ revInfo = NoResult
    /\ revErr = Nil

\* One call of reverse.AnalyzeFile.
RevAnalyze ==
    /\ revPc = "called"
    /\ revPc' = "returned"
    /\ revInfo' = revAnalyzeFile(revFile).info
    /\ revErr' = revAnalyzeFile(revFile).err
    /\ UNCHANGED <<agentVars, sniffVars, strVars, revFile, helperVars,
                   noteVars>>

NextReverse == RevAnalyze

SpecReverse == InitReverse /\ [][NextReverse]_vars

(***************************************************************************)
(* Properties of reverse.AnalyzeFile.                                      *)
(***************************************************************************)
RevReturned == revPc = "returned"
RevReturnedInfo == RevReturned /\ revErr = Nil

Formats == {"PE", "ELF", "Mach-O"}

StartsWith(bytes, magic) ==
    Len(bytes) >= Len(magic) /\ SubSeq(bytes, 1, Len(magic)) = magic

ParseSucceeds(f, format) == f.openable /\ f.structure = format

\* The sniffer confirmed a format: its magic is there and its parse succeeded.
SniffConfirmed(f) ==
    \/ StartsWith(f.bytes, MZ) /\ ParseSucceeds(f, "PE")
    \/ StartsWith(f.bytes, ELFMagic) /\ ParseSucceeds(f, "ELF")
    \/ \E m \in MachOMagics : StartsWith(f.bytes, m) /\ ParseSucceeds(f, "Mach-O")

\* The container parser ran to its end on the file.
ParserRan(f) == SniffConfirmed(f) /\ f.reopen = "ok"

\* C11: for every file that can be accessed, the recorded Type is PE iff
\* the file starts with 4D 5A and the PE parse succeeds, ELF iff it starts
\* with 7F 45 4C 46 and the ELF parse succeeds, Mach-O iff it starts with
\* one of the four Mach-O magics and the Mach-O parse succeeds; in every
\* other case the Type is "Unknown"; and no error is returned.
C11_SniffingRule ==
    (RevReturned /\ revFile.exists) =>
        /\ revErr = Nil
        /\ revInfo.Type \in Formats \cup {"Unknown"}
        /\ revInfo.Type = "PE" <=>
              (StartsWith(revFile.bytes, MZ) /\ ParseSucceeds(revFile, "PE"))
        /\ revInfo.Type = "ELF" <=>
              (StartsWith(revFile.bytes, ELFMagic)
                 /\ ParseSucceeds(revFile, "ELF"))
        /\ revInfo.Type = "Mach-O" <=>
              (\E m \in MachOMagics :
                  StartsWith(revFile.bytes, m)
                    /\ ParseSucceeds(revFile, "Mach-O"))

\* A file with the MZ magic whose structural parse fails came back Unknown.
C11_Witness ==
    /\ RevReturnedInfo
    /\ StartsWith(revFile.bytes, MZ)
    /\ revFile.size > HeaderLen
    /\ ~ParseSucceeds(revFile, "PE")
    /\ revInfo.Type = "Unknown"

\* C12: when the container parser fails after the sniffer confirmed the
\* format, the returned FileInfo has Type "Unknown" and nothing but
\* strings.
C12_ParserFailureDowngrades ==
    (RevReturnedInfo /\ SniffConfirmed(revFile) /\ ReopenFails(revFile)) =>
        /\ revInfo.Type = "Unknown"
        /\ revInfo.Arch = NoArch
        /\ revInfo.Sections = <<>>
        /\ revInfo.Imports = <<>>
        /\ revInfo.Exports = <<>>

\* C13: a returned FileInfo of Type "Unknown" has no architecture label, no
\* sections, no imports and no exports.
C13_UnknownHasNoStructure ==
    (RevReturnedInfo /\ revInfo.Type = "Unknown") =>
        /\ revInfo.Arch = NoArch
        /\ revInfo.Sections = <<>>
        /\ revInfo.Imports = <<>>
        /\ revInfo.Exports = <<>>

\* A COFF object, which the PE reader accepts and the sniffer does not,
\* came back Unknown with its strings.
C13_Witness ==
    /\ RevReturnedInfo
    /\ revInfo.Type = "Unknown"
    /\ revFile.structure = "PE"
    /\ revInfo.Strings # <<>>

\* C14: an error is returned exactly when os.Stat fails; a file that can
\* be accessed gets a FileInfo with Path, Name and Size set and no error.
C14_ErrorOnlyOnStat ==
    RevReturned =>
        /\ revErr # Nil <=> ~revFile.exists
        /\ revFile.exists =>
              /\ revInfo # NoResult
              /\ revInfo.Path = revFile.path
              /\ revInfo.Name = revFile.name
              /\ revInfo.Size = revFile.size

\* A file that exists but cannot be opened or read by anything came back
\* with a FileInfo and no error.
C14_Witness ==
    /\ RevReturnedInfo
    /\ ~revFile.openable
    /\ ~revFile.readable
    /\ revFile.cmd = "fail"
    /\ revInfo.Size = revFile.size

\* C15: a file truncated right after a recognised magic gets Type
\* "Unknown", and what the string extractor finds in its bytes is stored in
\* Strings.
C15_TruncatedAfterMagic ==
    (RevReturnedInfo /\ revFile.openable /\ revFile.size <= 8
       /\ (StartsWith(revFile.bytes, ELFMagic) \/ StartsWith(revFile.bytes, MZ)
             \/ \E m \in MachOMagics : StartsWith(revFile.bytes, m))) =>
        /\ revInfo.Type = "Unknown"
        /\ extractStrings(revFile).err = Nil =>
              revInfo.Strings = extractStrings(revFile).strings
        /\ (revFile.cmd = "fail" /\ revFile.readable) =>
              /\ Len(revInfo.Strings) = Cardinality(MaximalRuns(revFile.data))
              /\ \A r \in MaximalRuns(revFile.data) :
                    \E i \in 1..Len(revInfo.Strings) :
                        revInfo.Strings[i] = SubSeq(revFile.data, r[1], r[2])

\* The 8 bytes 7F 45 4C 46 61 00 00 00, read without the strings command.
C15_Witness ==
    /\ RevReturnedInfo
    /\ revFile.bytes = <<127, 69, 76, 70, 97, 0, 0, 0>>
    /\ revFile.cmd = "fail"
    /\ revFile.readable
    /\ revInfo.Type = "Unknown"
    /\ revInfo.Strings = << <<69, 76, 70, 97>> >>

\* C16: when the container parser ran, the architecture label is never
\* missing, a PE file with machine code 0x8664 is labelled "x86_64", and a
\* label "Unknown (0x...)" carries the machine (cpu) code in hexadecimal.
C16_UnlistedCodeLabel ==
    (RevReturnedInfo /\ ParserRan(revFile)) =>
        /\ revInfo.Arch # NoArch
        /\ (revInfo.Type = "PE" /\ revFile.image.machine = 34404) =>
              revInfo.Arch = ArchName("x86_64")
        /\ revInfo.Arch.text = "Unknown" =>
              revInfo.Arch.hex = HexDigits(revFile.image.machine)

\* The execute bit of a format, and the text its parser records for raw
\* flag bits.
ExecBit(format) ==
    CASE format = "PE" -> 536870912
      [] format = "ELF" -> 4
      [] format = "Mach-O" -> 1024

FlagsText(format, x) ==
    IF format = "ELF" THEN FlagsOfText(elfFlagString(x)) ELSE FlagsOfNumber(x)

FlagValues(format) ==
    CASE format = "PE" ->
             {0, 32, 64, 536870912, 536870944, 1073741888, 1610612768}
      [] format = "ELF" -> 0..7
      [] format = "Mach-O" -> {0, 1, 1024, 1025, 2048}

\* C17: the FileInfo has one Section per section header of the parsed file;
\* its IsExecutable is true iff the raw flags have the execute bit of the
\* format (0x20000000 for PE, 0x4 for ELF, 0x400 for Mach-O); and the Flags
\* text agrees with it: all raw flags recorded as this text have the same
\* execute bit.
C17_ExecutableFromFlagBits ==
    RevReturnedInfo =>
        LET secs == IF ParserRan(revFile)
                      THEN revFile.image.sections ELSE <<>>
            out == revInfo.Sections
        IN  /\ Len(out) = Len(secs)
            /\ \A i \in 1..Len(secs) :
                  /\ out[i].IsExecutable
                        <=> BitSet(secs[i].flags, ExecBit(revInfo.Type))
                  /\ \A x \in FlagValues(revInfo.Type) :
                        FlagsText(revInfo.Type, x) = out[i].Flags =>
                            (BitSet(x, ExecBit(revInfo.Type))
                                <=> out[i].IsExecutable)

\* A PE file with a section that is executable without being marked as
\* code.
C17_Witness ==
    /\ RevReturnedInfo
    /\ revInfo.Type = "PE"
    /\ \E i \in 1..Len(revInfo.Sections) :
          /\ revInfo.Sections[i].IsExecutable
          /\ revInfo.Sections[i].Flags = FlagsOfNumber(536870912)

\* C18: a FileInfo of Type "ELF" has IsStripped true iff the file has no
\* static symbol; a FileInfo of any other Type has IsStripped false.
C18_StrippedIffNoSymbols ==
    RevReturnedInfo =>
        /\ revInfo.Type = "ELF" =>
              (revInfo.IsStripped <=> revFile.image.nsyms = 0)
        /\ revInfo.Type # "ELF" => ~revInfo.IsStripped

(***************************************************************************)
(* Properties of the channels of agent.AnalyzeFile.                        *)
(***************************************************************************)
AllTerminal == \A t \in Tasks : Terminal(t)

Parses(t, n) == gen[t].kind = "ok" /\ Len(Parsed(t, gen[t].response)) = n

ParsesMoreThan(t, n) ==
    gen[t].kind = "ok" /\ Len(Parsed(t, gen[t].response)) > n

Received(t) ==
    /\ result # NoResult
    /\ FieldOf(result, t) # <<>>

\* C22 as stated: nothing has been received from the findings, the
\* vulnerability or the summary channel while a task has not terminated.
C22_DrainedAfterProducers ==
    \A t \in Tasks : Received(t) => AllTerminal

\* C22 as amended: nothing is received from the vulnerability or the
\* summary channel, and the loop over the findings channel is not left,
\* before all three tasks have terminated; the findings channel itself is
\* received from as soon as it holds an item.
C22_LaterChannelsDrainedAfterProducers ==
    /\ \A t \in {"VulnerabilityScan", "Summary"} : Received(t) => AllTerminal
    /\ mainPc \in {"collectVulns", "collectSummary"} => AllTerminal
    /\ (mainPc = "collectFindings" /\ chans["Extraction"].buf # <<>>) =>
          ENABLED CollectFindings

\* A finding is in the result while the two other tasks are still inside
\* Generate.
C22_Witness ==
    /\ Received("Extraction")
    /\ tpc["VulnerabilityScan"] = "generating"
    /\ tpc["Summary"] = "generating"
    /\ mainPc = "collectFindings"

C26_CloseOnceAfterAllTasks ==
    /\ ~panicked
    /\ \A t \in Tasks :
          chans[t].closed => (wg = 0 /\ AllTerminal /\ pending[t] = <<>>)
    /\ closerPc \in {"closeFindings", "closeVuln", "closeSummary", "done"} =>
          wg = 0
    /\ chans["Extraction"].closed <=>
          closerPc \in {"closeVuln", "closeSummary", "done"}
    /\ chans["VulnerabilityScan"].closed <=>
          closerPc \in {"closeSummary", "done"}
    /\ chans["Summary"].closed <=> closerPc = "done"

\* The three channels are closed after one task failed and two sent.
C26_Witness ==
    /\ \A t \in Tasks : chans[t].closed
    /\ tpc["Extraction"] = "failed"
    /\ tpc["VulnerabilityScan"] = "succeeded"
    /\ tpc["Summary"] = "succeeded"
    /\ ~panicked

FindingsOverflow ==
    /\ ParsesMoreThan("Extraction", FindingsChanCap)
    /\ gen["VulnerabilityScan"].kind # "hang"
    /\ ~ParsesMoreThan("VulnerabilityScan", VulnChanCap)
    /\ gen["Summary"].kind # "hang"

ListedExts ==
    {".exe", ".dll", ".elf", ".so", ".jar", ".class", ".js", ".py", ".go",
     ".c", ".cpp", ".h", ".hpp"}

UnlistedExts == {"", ".txt", ".bin", ".EXE", ".gz"}

\* n bytes 'A', with a zero byte at position zeroAt (none when zeroAt = 0).
Filled(n, zeroAt) == [i \in 1..n |-> IF i = zeroAt THEN 0 ELSE 65]

TypeContents ==
    {Filled(0, 0), Filled(1, 0), Filled(1, 1), Filled(3, 2)}
        \cup {Filled(BinaryProbe, z) : z \in {0, 1, BinaryProbe}}
        \cup {Filled(BinaryProbe + 1, z) : z \in {0, BinaryProbe, BinaryProbe + 1}}

TypeInputs == [ext : ListedExts \cup UnlistedExts, content : TypeContents]

InitTypes ==
    /\ AgentIdle
    /\ SniffIdle
    /\ StrIdle
    /\ RevIdle
    /\ NotesIdle
    /\ typeInput \in TypeInputs
    /\ typeOutput = Nil
    /\ ctorOptions = Nil
    /\ ctorReturn = Nil

\* fileType := determineFileType(fileExt, fileContent)
DetermineFileType ==
    /\ typeOutput = Nil
    /\ typeOutput' = determineFileType(typeInput.ext, typeInput.content)
    /\ UNCHANGED <<agentVars, sniffVars, strVars, revVars, typeInput,
                   ctorOptions, ctorReturn, noteVars>>

NextTypes == DetermineFileType

SpecTypes == InitTypes /\ [][NextTypes]_vars

TypeOfExt(ext) ==
    CASE ext \in {".exe", ".dll"} -> "Windows PE Executable"
      [] ext \in {".elf", ".so"} -> "ELF Binary"
      [] ext = ".jar" -> "Java Archive"
      [] ext = ".class" -> "Java Bytecode"
      [] ext = ".js" -> "JavaScript"
      [] ext = ".py" -> "Python"
      [] ext = ".go" -> "Go"
      [] ext \in {".c", ".cpp", ".h", ".hpp"} -> "C/C++"

ZeroInPrefix(content) ==
    \E i \in 1..Len(content) : i <= 1000 /\ content[i] = 0

\* C30: a listed extension fixes the file type whatever the bytes are;
\* for any other extension the type is "Binary" iff a zero byte occurs
\* among the first min(len, 1000) bytes and "Text" otherwise, an empty
\* file included.
C30_TypeByExtensionThenContent ==
    typeOutput # Nil =>
        /\ typeInput.ext \in ListedExts =>
              typeOutput = TypeOfExt(typeInput.ext)
        /\ typeInput.ext \notin ListedExts =>
              /\ typeOutput \in {"Binary", "Text"}
              /\ typeOutput = "Binary" <=> ZeroInPrefix(typeInput.content)
              /\ typeInput.content = <<>> => typeOutput = "Text"

\* A file without a listed extension whose only zero byte is byte 1001 is
\* "Text".
C30_Witness ==
    /\ typeOutput = "Text"
    /\ typeInput.ext = ".bin"
    /\ Len(typeInput.content) = 1001
    /\ typeInput.content[1001] = 0

(***************************************************************************)
(* agent.NewAgent.  The temperature is kept in tenths.                     *)
(***************************************************************************)
DefaultOllamaEndpoint == "http://localhost:11434/api"
DefaultMaxTokens == 1024
DefaultTemperature == 7
DefaultConcurrency == 2

ModelNameKept(name) == name

\* if options.ModelName == "" { options.ModelName = "deepseek:8b" }
ModelNameOrDefault(name) == IF name = "" THEN "deepseek:8b" ELSE name

\* Apply default values for unspecified options
withDefaults(options) ==
    [options EXCEPT
        !.ModelName = ModelNameOrDefault(@),
        !.OllamaEndpoint = IF @ = "" THEN DefaultOllamaEndpoint ELSE @,
        !.MaxTokens = IF @ = 0 THEN DefaultMaxTokens ELSE @,
        !.Temperature = IF @ = 0 THEN DefaultTemperature ELSE @,
        !.Concurrency = IF @ = 0 THEN DefaultConcurrency ELSE @]

BaseModel(name, endpoint, maxTokens, temperature) ==
    [endpoint |-> endpoint, modelName |-> name, maxTokens |-> maxTokens,
     temperature |-> temperature]

\* models.NewDeepSeekModel: never fails.
NewDeepSeekModel(endpoint, maxTokens, temperature) ==
    [model |-> BaseModel("deepseek:8b", endpoint, maxTokens, temperature),
     err |-> Nil]

\* models.NewGemmaModel: never fails.
NewGemmaModel(endpoint, maxTokens, temperature) ==
    [model |-> BaseModel("gemma3", endpoint, maxTokens, temperature),
     err |-> Nil]

AgentWith(options, made) ==
    IF made.err # Nil
      THEN [agent |-> NoResult, err |-> "failed to initialize model"]
      ELSE [agent |-> [options |-> options, model |-> made.model,
                       logger |-> [verbose |-> options.Verbose]],
            err |-> Nil]

\* agent.NewAgent(options)
NewAgent(options) ==
    LET o == withDefaults(options) IN
    CASE o.ModelName = "deepseek:8b" ->
            AgentWith(o, NewDeepSeekModel(o.OllamaEndpoint, o.MaxTokens,
                                          o.Temperature))
      [] o.ModelName = "gemma3" ->
            AgentWith(o, NewGemmaModel(o.OllamaEndpoint, o.MaxTokens,
                                       o.Temperature))
      [] OTHER -> [agent |-> NoResult, err |-> "unsupported model"]

ModelNames == {"", "deepseek:8b", "gemma3", "Gemma3", "deepseek", "llama3"}

OptionSet ==
    [ModelName : ModelNames,
     OllamaEndpoint : {"", "http://10.0.0.1:11434/api"},
     Verbose : BOOLEAN,
     TrainingMode : {FALSE},
     MaxTokens : {0, 1, 2048},
     Temperature : {0, 2},
     Concurrency : {0, 1, 4}]

InitNewAgent ==
    /\ AgentIdle
    /\ SniffIdle
    /\ StrIdle
    /\ RevIdle
    /\ NotesIdle
    /\ typeInput = Nil
    /\ typeOutput = Nil
    /\ ctorOptions \in OptionSet
    /\ ctorReturn = Nil

\* One call of NewAgent.
CallNewAgent ==
    /\ ctorReturn = Nil
    /\ ctorReturn' = <<NewAgent(ctorOptions)>>
    /\ UNCHANGED <<agentVars, sniffVars, strVars, revVars, typeInput,
                   typeOutput, ctorOptions, noteVars>>

NextNewAgent == CallNewAgent

SpecNewAgent == InitNewAgent /\ [][NextNewAgent]_vars

\* C24: an empty ModelName is treated as "deepseek:8b"; the names
\* "deepseek:8b" and "gemma3" (and the empty one) yield an agent whose model
\* is set and no error; any other name yields an error and a nil agent.
C24_ModelByName ==
    ctorReturn # Nil =>
        LET r == ctorReturn[1]
            name == ctorOptions.ModelName
        IN  /\ name \in {"", "deepseek:8b", "gemma3"} =>
                  /\ r.err = Nil
                  /\ r.agent # NoResult
                  /\ r.agent.model.modelName =
                        (IF name = "gemma3" THEN "gemma3" ELSE "deepseek:8b")
                  /\ r.agent.options.ModelName = r.agent.model.modelName
            /\ name \notin {"", "deepseek:8b", "gemma3"} =>
                  /\ r.err # Nil
                  /\ r.agent = NoResult

\* An agent made from options that name no model.
C24_Witness ==
    /\ ctorReturn # Nil
    /\ ctorOptions.ModelName = ""
    /\ ctorReturn[1].err = Nil
    /\ ctorReturn[1].agent.model.modelName = "deepseek:8b"
    /\ ctorReturn[1].agent.model.maxTokens = DefaultMaxTokens

(***************************************************************************)
(* Package models: FileNoteStore.  The clock counts ticks, TicksPerSecond  *)
(* of them in a second.  A time.Time is its wall-clock reading and whether *)
(* it carries a monotonic reading, which JSON does not keep.  An ID is the *)
(* number of the second it names; 0 stands for the empty ID.  Of the       *)
(* fields that are only copied, a note keeps its Title.                    *)
(***************************************************************************)
NoID == 0

ZeroTime == [wall |-> 0, mono |-> FALSE]

\* time.Now()
TimeNow(t) == [wall |-> t, mono |-> TRUE]

\* t.Format("20060102150405"): the time to the second.
FormatID(t) == t.wall \div TicksPerSecond

\* json.MarshalIndent and json.Unmarshal of a time.Time: the wall-clock
\* reading comes back, the monotonic reading does not.
JSONTime(t) == [wall |-> t.wall, mono |-> FALSE]

\* The Note that json.Unmarshal gives back from the data of a note.
JSONNote(note) ==
    [note EXCEPT !.Created = JSONTime(@), !.Modified = JSONTime(@)]

CreatedAlways(note, t2, t3) ==
    [note EXCEPT !.Created = TimeNow(t3)]

\* if note.ID == "" { note.ID = ...; note.Created = time.Now() }
CreatedIfNew(note, t2, t3) ==
    IF note.ID = NoID
      THEN [note EXCEPT !.ID = FormatID(TimeNow(t2)), !.Created = TimeNow(t3)]
      ELSE note

\* The note as SaveNote leaves it in memory; t1, t2 and t3 are the times of
\* its three calls of time.Now().
Stamped(note, t1, t2, t3) ==
    CreatedIfNew([note EXCEPT !.Modified = TimeNow(t1)], t2, t3)

\* os.WriteFile(filepath.Join(s.BasePath, note.ID+".json"), data, 0644)
WriteFile(files, id, note) ==
    [x \in DOMAIN files \cup {id} |-> IF x = id THEN JSONNote(note)
                                                 ELSE files[x]]

\* FileNoteStore.ListNotes: the notes of all the *.json files, in the order
\* of the file names.
RECURSIVE ListFrom(_, _)
ListFrom(files, ids) ==
    IF ids = {} THEN <<>>
    ELSE LET least == CHOOSE x \in ids : \A y \in ids : x <= y
         IN  <<files[least]>> \o ListFrom(files, ids \ {least})

ListNotes(files) == ListFrom(files, DOMAIN files)

\* FileNoteStore.GetNote
GetNote(files, id) ==
    IF id \in DOMAIN files THEN [note |-> files[id], err |-> Nil]
    ELSE [note |-> NoResult, err |-> "no such file"]

\* The times at which SaveNote, called at t1, can read the clock again.
LaterTimes(t) == {u \in {t, t + 1} : u <= MaxTime}

\* FileNoteStore.SaveNote(note): the clock is read three times, the note
\* is stamped and written.  The write may fail.
SaveNote(note) ==
    \E t2 \in LaterTimes(now) : \E t3 \in LaterTimes(t2) : \E ok \in BOOLEAN :
        LET n == Stamped(note, now, t2, t3) IN
        /\ now' = t3
        /\ notes' = IF ok THEN WriteFile(notes, n.ID, n) ELSE notes
        /\ saved' = [given |-> note, note |-> n, at |-> now,
                     err |-> IF ok THEN Nil ELSE "write failed"]

\* The clock moves on.
Tick ==
    /\ now < MaxTime
    /\ now' = now + 1
    /\ UNCHANGED <<agentVars, sniffVars, strVars, revVars, helperVars,
                   notes, saved, currentNoteID, notepad>>

\* Notes a caller of the store hands to SaveNote: new ones, and ones that
\* name a file and carry a creation time.
GivenNotes ==
    [ID : {NoID, 9}, Title : {"a", "b"},
     Created : {ZeroTime, JSONTime(TimeNow(1))}, Modified : {ZeroTime}]

InitStore ==
    /\ AgentIdle
    /\ SniffIdle
    /\ StrIdle
    /\ RevIdle
    /\ HelperIdle
    /\ now \in {TicksPerSecond, TicksPerSecond + 1}
    /\ notes = <<>>
    /\ saved = NoResult
    /\ currentNoteID = NoID
    /\ notepad = ""

\* store.SaveNote(note) for a note made by the caller.
SaveGiven ==
    /\ \E note \in GivenNotes : SaveNote(note)
    /\ UNCHANGED <<agentVars, sniffVars, strVars, revVars, helperVars,
                   currentNoteID, notepad>>

\* store.SaveNote(note) again for the note that was just saved.
SaveAgain ==
    /\ saved # NoResult
    /\ SaveNote(saved.note)
    /\ UNCHANGED <<agentVars, sniffVars, strVars, revVars, helperVars,
                   currentNoteID, notepad>>

\* note, _ := store.GetNote(id); store.SaveNote(note)
SaveLoaded ==
    /\ \E id \in DOMAIN notes : SaveNote(GetNote(notes, id).note)
    /\ UNCHANGED <<agentVars, sniffVars, strVars, revVars, helperVars,
                   currentNoteID, notepad>>

NextStore == Tick \/ SaveGiven \/ SaveAgain \/ SaveLoaded

SpecStore == InitStore /\ [][NextStore]_vars

(***************************************************************************)
(* Properties of FileNoteStore.                                            *)
(***************************************************************************)
SaveReturned == saved # NoResult

\* C25: SaveNote gives a note with an empty ID an ID and a creation time
\* taken from the clock during the call; it leaves the ID and Created of a
\* note with a non-empty ID as given; in both cases Modified is the time
\* of the call and, when the write succeeds, the file named by the ID holds
\* the note.
C25_SaveNoteStamps ==
    SaveReturned =>
        LET g == saved.given
            n == saved.note
        IN  /\ g.ID = NoID =>
                  /\ n.ID # NoID
                  /\ \E t \in saved.at..now : n.ID = t \div TicksPerSecond
                  /\ n.Created.wall \in saved.at..now
            /\ g.ID # NoID => (n.ID = g.ID /\ n.Created = g.Created)
            /\ n.Modified = TimeNow(saved.at)
            /\ n.Title = g.Title
            /\ saved.err = Nil =>
                  (n.ID \in DOMAIN notes /\ notes[n.ID] = JSONNote(n))

\* A note that came with an ID and a creation time of its own is on disk
\* with both, and with a later time of modification.
C25_Witness ==
    /\ SaveReturned
    /\ saved.err = Nil
    /\ saved.given.ID = 9
    /\ saved.given.Created.wall = 1
    /\ notes[9].Created.wall = 1
    /\ notes[9].Modified.wall > TicksPerSecond

\* C29: a successful SaveNote of a note with an empty ID gives it an ID
\* that no file of the store has yet, so it adds a file to the store.
C29_NewNoteGetsFreshID ==
    [][(saved' # saved /\ saved'.given.ID = NoID /\ saved'.err = Nil) =>
          /\ saved'.note.ID \notin DOMAIN notes
          /\ Len(ListNotes(notes')) = Len(ListNotes(notes)) + 1]_vars

(***************************************************************************)
(* Package ui: NoteController on a FileNoteStore.  The notepad is the text *)
(* of its title entry.                                                     *)
(***************************************************************************)
Titles == {"a", "b"}

\* components.ConvertToNote(data, existingID): Created and Modified are not
\* set.
ConvertToNote(title, existingID) ==
    [ID |-> existingID, Title |-> title, Created |-> ZeroTime,
     Modified |-> ZeroTime]

\* components.ConvertFromNote(note)
ConvertFromNote(note) == note.Title

InitNotes == InitStore

\* The user types a title.
EditTitle ==
    /\ \E t \in Titles : notepad' = t
    /\ UNCHANGED <<agentVars, sniffVars, strVars, revVars, helperVars,
                   now, notes, saved, currentNoteID>>

\* NoteController.CreateNewNote
CreateNewNote ==
    /\ currentNoteID' = NoID
    /\ notepad' = ""
    /\ UNCHANGED <<agentVars, sniffVars, strVars, revVars, helperVars,
                   now, notes, saved>>

\* NoteController.SaveCurrentNote: nothing is saved without a title; the
\* ID of the saved note becomes the current one unless the store failed.
SaveCurrentNote ==
    /\ IF notepad = ""
         THEN UNCHANGED <<now, notes, saved, currentNoteID>>
         ELSE /\ SaveNote(ConvertToNote(notepad, currentNoteID))
              /\ currentNoteID' = IF saved'.err = Nil THEN saved'.note.ID
                                                      ELSE currentNoteID
    /\ UNCHANGED <<agentVars, sniffVars, strVars, revVars, helperVars,
                   notepad>>

\* NoteController.LoadNote(noteID), for a note of the list or an ID that
\* names no file.
LoadNote ==
    /\ \E id \in DOMAIN notes \cup {9} :
          LET got == GetNote(notes, id) IN
          IF got.err # Nil
            THEN UNCHANGED <<notepad, currentNoteID>>
            ELSE /\ notepad' = ConvertFromNote(got.note)
                 /\ currentNoteID' = id
    /\ UNCHANGED <<agentVars, sniffVars, strVars, revVars, helperVars,
                   now, notes, saved>>

NextNotes == Tick \/ EditTitle \/ CreateNewNote \/ SaveCurrentNote \/ LoadNote

SpecNotes == InitNotes /\ [][NextNotes]_vars

\* C28: no operation of the controller changes the Created value stored
\* for a note, and a save with a current note keeps its ID.
C28_CreatedNeverChanges ==
    [][/\ \A id \in DOMAIN notes :
             id \in DOMAIN notes' /\ notes'[id].Created = notes[id].Created
       /\ (currentNoteID # NoID /\ saved' # saved /\ saved'.err = Nil) =>
             saved'.note.ID = currentNoteID]_vars

====
